---- MODULE Spec2Model ----
(***************************************************************************)
(* A model of analyst-scenario.js (src/index.js): the builders TripPattern, *)
(* TimeWindow, RemoveTrip, ConvertToFrequency and AdjustHeadway, and the    *)
(* documents their make() methods return.                                   *)
(*                                                                          *)
(* JavaScript values are tagged records, so that null, undefined, numbers   *)
(* and strings can be compared with one another.  Distances are exact       *)
(* integers: coordinates lie on the line y = 0, one coordinate unit is one  *)
(* kilometre, and every stop spacing is a whole number of kilometres given  *)
(* in metres, so the code's m <-> km conversions stay exact.                *)
(***************************************************************************)
EXTENDS Integers, Sequences, FiniteSets, TLC

VARIABLES
  target,     \* the builder the client script is working on
  tp,         \* the TripPattern's fields
  win,        \* the TimeWindow objects' fields, by object identity
  rt,         \* the RemoveTrip's fields
  ah,         \* the AdjustHeadway's fields
  cf,         \* the ConvertToFrequency's fields
  heap,       \* the contents of the arrays the flat builders allocated
  ret,        \* what the most recent call returned (or that it threw)
  added,      \* the arguments given to addRoute / addTrip / addType so far
  oddReversals \* whether reverse() was called an odd number of times

vars == <<target, tp, win, rt, ah, cf, heap, ret, added, oddReversals>>

----------------------------------------------------------------------------
(* Bounds of the model *)

\* the longest coordinate list passed to geometry()
MaxLen == 3
\* the longest _windows list
MaxWindows == 2
\* the longest filter list of a flat builder
MaxList == 2

(* Numbers of the program *)

MetersPerKm == 1000
SecondsPerHour == 3600
GtfsDay == 86400
TwoGtfsDays == 172800
DefaultEnd == 86399
DefaultHeadway == 600
DefaultDwell == 0
DefaultSpeed == 15
DefaultAdjustHeadway == 600

----------------------------------------------------------------------------
(* JavaScript values *)

Null == [type |-> "null"]
Undefined == [type |-> "undefined"]
Num(n) == [type |-> "number", v |-> n]
Str(s) == [type |-> "string", v |-> s]
Bool(b) == [type |-> "boolean", v |-> b]
ArrayRef(id) == [type |-> "array", id |-> id]

\* ToNumber, as the arithmetic operators apply it to null and to numbers
ToNumber(v) == IF v = Null THEN 0 ELSE v.v

\* the results a call can have: the builder itself (a call with an argument),
\* the value a call without one or make() returned (`of` names the method),
\* an exception, or no result because the call never returns
This(obj) == [kind |-> "this", of |-> "", val |-> Str(obj)]
Value(call, v) == [kind |-> "value", of |-> call, val |-> v]
Threw(msg) == [kind |-> "threw", of |-> "", val |-> Str(msg)]
Diverges == [kind |-> "diverges", of |-> "", val |-> Undefined]
NoCall == [kind |-> "none", of |-> "", val |-> Undefined]

Reverse(s) == [i \in 1..Len(s) |-> s[Len(s) + 1 - i]]

RECURSIVE Sum(_)
Sum(s) == IF s = <<>> THEN 0 ELSE Head(s) + Sum(Tail(s))

Abs(n) == IF n < 0 THEN -n ELSE n

\* the sequences over S of length at most n
RECURSIVE SeqsUpTo(_, _)
SeqsUpTo(S, n) ==
  IF n = 0 THEN {<<>>}
  ELSE LET shorter == SeqsUpTo(S, n - 1)
       IN shorter \cup {Append(s, x) : s \in {t \in shorter : Len(t) = n - 1}, x \in S}

----------------------------------------------------------------------------
(* The inputs the client script passes *)

WindowIds == {"w1", "w2"}
XCoords == {0, 3}
Coordinates == {<<x, 0>> : x \in XCoords}
Geometries == {[type |-> "LineString", coordinates |-> c] : c \in SeqsUpTo(Coordinates, MaxLen)}
Spacings == {Num(0 - MetersPerKm), Num(0), Num(MetersPerKm), Num(2 * MetersPerKm)}
Names == {Str("A")}
StartTimes == {0 - 1, 0, 43200, GtfsDay, GtfsDay + 1, 90000}
EndTimes == {0 - 1, 0, GtfsDay, TwoGtfsDays, TwoGtfsDays + 1}
Headways == {60, DefaultHeadway}
AdjustedHeadways == {Num(300)}
Dwells == {DefaultDwell, 15}
Speeds == {DefaultSpeed, 30}
Routes == {Str("r1"), Str("r2")}
Trips == {Str("t1")}
Types == {Num(3)}
Agencies == {Str("a1")}
WindowBounds == {Num(3600)}
GroupBys == {Str("ROUTE")}

----------------------------------------------------------------------------
(* The state after construction *)

\* new TripPattern()
NewTripPattern ==
  [geometry |-> Null, spacing |-> Null, windows |-> <<>>,
   name |-> Str("New trip pattern"), reversed |-> FALSE]

\* new TimeWindow()
NewTimeWindow ==
  [mon |-> TRUE, tue |-> TRUE, wed |-> TRUE, thurs |-> TRUE, fri |-> TRUE,
   sat |-> TRUE, sun |-> TRUE,
   start |-> 0, end |-> DefaultEnd, headway |-> DefaultHeadway,
   dwell |-> DefaultDwell, speed |-> DefaultSpeed]

----------------------------------------------------------------------------
(* The libraries TripPattern.make() calls *)

\* turf-distance in kilometres, for points on the line y = 0 at one unit per km
distance(a, b) == Abs(b[1] - a[1])

\* polyline's encoding of one signed number: zigzag, then 5-bit chunks, low
\* chunk first, each but the last with the continuation bit, each plus 63
RECURSIVE encodeChunks(_)
encodeChunks(n) ==
  IF n >= 32 THEN <<(32 + (n % 32)) + 63>> \o encodeChunks(n \div 32)
  ELSE <<n + 63>>

encodeNumber(v) == encodeChunks(IF v < 0 THEN (0 - 2 * v) - 1 ELSE 2 * v)

\* polyline.encode: each point's latitude and longitude at 5 decimals, as the
\* difference to the point before; the string is its sequence of char codes
RECURSIVE polylineEncode(_, _)
polylineEncode(points, prev) ==
  IF points = <<>> THEN <<>>
  ELSE LET p == Head(points)
       IN encodeNumber(p[1] * 100000 - prev[1] * 100000)
          \o encodeNumber(p[2] * 100000 - prev[2] * 100000)
          \o polylineEncode(Tail(points), p)

----------------------------------------------------------------------------
(* TripPattern.make() *)

\* the locals of make() as it starts, with the builder it runs on
MakeLocals(this) ==
  [this |-> this,
   accumulator |-> 0,
   nextStop |-> ToNumber(this.spacing) \div MetersPerKm,
   stopIndices |-> <<TRUE>>,
   nStops |-> 2,
   hops |-> <<>>,
   coordinates |->
     <<IF this.geometry.coordinates = <<>> THEN Undefined
       ELSE this.geometry.coordinates[1]>>,
   diverged |-> FALSE]

\* variant: the loop body without nStops++
InsertStopUncounted(loc, c1, c2, segLen) ==
  LET fracNum == segLen - (loc.accumulator - loc.nextStop)
      interpolatedCoord ==
        <<c1[1] + ((c2[1] - c1[1]) * fracNum) \div segLen,
          c1[2] + ((c2[2] - c1[2]) * fracNum) \div segLen>>
  IN [loc EXCEPT !.coordinates = Append(@, interpolatedCoord),
                 !.stopIndices = Append(@, TRUE),
                 !.hops = Append(@, ToNumber(loc.this.spacing)),
                 !.nextStop = @ + ToNumber(loc.this.spacing) \div MetersPerKm]

\* one pass of the stop-insertion loop's body on the segment from c1 to c2
InsertStop(loc, c1, c2, segLen) ==
  LET fracNum == segLen - (loc.accumulator - loc.nextStop)
      interpolatedCoord ==
        <<c1[1] + ((c2[1] - c1[1]) * fracNum) \div segLen,
          c1[2] + ((c2[2] - c1[2]) * fracNum) \div segLen>>
  IN [loc EXCEPT !.nStops = @ + 1,
                 !.coordinates = Append(@, interpolatedCoord),
                 !.stopIndices = Append(@, TRUE),
                 !.hops = Append(@, ToNumber(loc.this.spacing)),
                 !.nextStop = @ + ToNumber(loc.this.spacing) \div MetersPerKm]

\* the stop-insertion loop.  Its body leaves the accumulator alone and adds
\* spacing / 1000 to nextStop: with a spacing of zero or less (null counts as
\* 0) the condition, once true, stays true and the loop never ends.
RECURSIVE InsertStops(_, _, _, _)
InsertStops(loc, c1, c2, segLen) ==
  IF ~(loc.accumulator > loc.nextStop) THEN loc
  ELSE IF ToNumber(loc.this.spacing) \div MetersPerKm <= 0
    THEN [loc EXCEPT !.diverged = TRUE]
  ELSE InsertStops(InsertStop(loc, c1, c2, segLen), c1, c2, segLen)

\* variant: every copied vertex marked as a stop
PushVertexAsStop(loc, i) ==
  [loc EXCEPT !.coordinates = Append(@, loc.this.geometry.coordinates[i]),
              !.stopIndices = Append(@, TRUE)]

\* the end of segment i is copied, and is a stop if it ends the line
PushVertex(loc, i) ==
  [loc EXCEPT !.coordinates = Append(@, loc.this.geometry.coordinates[i]),
              !.stopIndices = Append(@, i = Len(loc.this.geometry.coordinates))]

\* the loop over the segments; i is the 1-based index of the segment's end
RECURSIVE WalkSegments(_, _)
WalkSegments(loc, i) ==
  LET coords == loc.this.geometry.coordinates IN
  IF i > Len(coords) \/ loc.diverged THEN loc
  ELSE
    LET segLen == distance(coords[i - 1], coords[i])
        walked == InsertStops([loc EXCEPT !.accumulator = @ + segLen],
                              coords[i - 1], coords[i], segLen)
    IN IF walked.diverged THEN walked
       ELSE WalkSegments(PushVertex(walked, i), i + 1)

\* variant: the last hop measured from nextStop, not from the last stop
PushLastHopFromNextStop(loc) ==
  [loc EXCEPT !.hops =
     Append(@, (loc.accumulator - loc.nextStop) * MetersPerKm)]

\* the hop from the last inserted stop to the end of the line, in metres
PushLastHop(loc) ==
  [loc EXCEPT !.hops =
     Append(@, (loc.accumulator
                - (loc.nextStop - ToNumber(loc.this.spacing) \div MetersPerKm))
               * MetersPerKm)]

\* variant: the builder's own coordinates reversed as well
ReverseLocalsMutatingInput(loc) ==
  IF loc.this.reversed
  THEN [loc EXCEPT !.hops = Reverse(@),
                   !.coordinates = Reverse(@),
                   !.stopIndices = Reverse(@),
                   !.this.geometry.coordinates = Reverse(@)]
  ELSE loc

\* a reversed pattern reverses the three local arrays in place
ReverseLocals(loc) ==
  IF loc.this.reversed
  THEN [loc EXCEPT !.hops = Reverse(@),
                   !.coordinates = Reverse(@),
                   !.stopIndices = Reverse(@)]
  ELSE loc

\* one timetable per time window.  (v / 1000) / speed * 3600 is computed as
\* the exact quotient (v / 1000) * 3600 / speed, an integer for these speeds.
HopTime(v, speed) == ((v \div MetersPerKm) * SecondsPerHour) \div speed

Timetable(loc, period) ==
  [startTime |-> period.start,
   endTime |-> period.end,
   headwaySecs |-> period.headway,
   frequency |-> TRUE,
   dwellTimes |-> [k \in 1..loc.nStops |-> period.dwell],
   hopTimes |-> [k \in 1..Len(loc.hops) |-> HopTime(loc.hops[k], period.speed)],
   days |-> <<period.mon, period.tue, period.wed, period.thurs, period.fri,
              period.sat, period.sun>>]

Timetables(loc, windows) ==
  [k \in 1..Len(loc.this.windows) |-> Timetable(loc, windows[loc.this.windows[k]])]

\* the document make() returns
TripPatternDocument(loc, windows) ==
  [type |-> "add-trip-pattern",
   name |-> loc.this.name,
   stops |-> loc.stopIndices,
   timetables |-> Timetables(loc, windows),
   geometry |->
     polylineEncode([k \in 1..Len(loc.coordinates) |->
                       <<loc.coordinates[k][2], loc.coordinates[k][1]>>],
                    <<0, 0>>)]

\* make(): the builder afterwards and the call's result.  Reading
\* .coordinates of a null geometry throws, and so does c[1] of the undefined
\* first coordinate of an empty geometry.
MakeTripPattern(this, windows) ==
  IF this.geometry = Null
  THEN [this |-> this, ret |-> Threw("TypeError")]
  ELSE
    LET walked == WalkSegments(MakeLocals(this), 2)
        loc == ReverseLocals(PushLastHop(walked))
    IN IF walked.diverged THEN [this |-> walked.this, ret |-> Diverges]
       ELSE IF this.geometry.coordinates = <<>>
         THEN [this |-> loc.this, ret |-> Threw("TypeError")]
       ELSE [this |-> loc.this, ret |-> Value("make", TripPatternDocument(loc, windows))]

----------------------------------------------------------------------------
(* TripPattern's methods *)

\* variant: reverse() setting the flag instead of flipping it
ToggleSticky(reversed) == TRUE
Toggle(reversed) == ~reversed

TP_reverse ==
  /\ target = "TripPattern"
  /\ tp' = [tp EXCEPT !.reversed = Toggle(@)]
  /\ oddReversals' = ~oddReversals
  /\ ret' = This("tp")
  /\ UNCHANGED <<target, win, rt, ah, cf, heap, added>>

\* name(name) with an argument
TP_name_set(name) ==
  /\ target = "TripPattern"
  /\ tp' = [tp EXCEPT !.name = name]
  /\ ret' = This("tp")
  /\ UNCHANGED <<target, win, rt, ah, cf, heap, added, oddReversals>>

\* name() without one returns its parameter, which is undefined
TP_name_get ==
  /\ target = "TripPattern"
  /\ LET name == Undefined IN ret' = Value("name", name)
  /\ UNCHANGED <<target, tp, win, rt, ah, cf, heap, added, oddReversals>>

TP_geometry_set(geometry) ==
  /\ target = "TripPattern"
  /\ tp' = [tp EXCEPT !.geometry = geometry]
  /\ ret' = This("tp")
  /\ UNCHANGED <<target, win, rt, ah, cf, heap, added, oddReversals>>

TP_geometry_get ==
  /\ target = "TripPattern"
  /\ ret' = Value("geometry", tp.geometry)
  /\ UNCHANGED <<target, tp, win, rt, ah, cf, heap, added, oddReversals>>

TP_spacing_set(spacing) ==
  /\ target = "TripPattern"
  /\ tp' = [tp EXCEPT !.spacing = spacing]
  /\ ret' = This("tp")
  /\ UNCHANGED <<target, win, rt, ah, cf, heap, added, oddReversals>>

TP_spacing_get ==
  /\ target = "TripPattern"
  /\ ret' = Value("spacing", tp.spacing)
  /\ UNCHANGED <<target, tp, win, rt, ah, cf, heap, added, oddReversals>>

TP_addTimeWindow(timeWindow) ==
  /\ target = "TripPattern"
  /\ Len(tp.windows) < MaxWindows
  /\ tp' = [tp EXCEPT !.windows = Append(@, timeWindow)]
  /\ ret' = This("tp")
  /\ UNCHANGED <<target, win, rt, ah, cf, heap, added, oddReversals>>

TP_make ==
  /\ target = "TripPattern"
  /\ LET r == MakeTripPattern(tp, win)
     IN /\ tp' = r.this
        /\ ret' = r.ret
  /\ UNCHANGED <<target, win, rt, ah, cf, heap, added, oddReversals>>

----------------------------------------------------------------------------
(* TimeWindow's methods *)

\* the calls the client script makes on a TimeWindow: on the window it is
\* building, the accessors of the service fields or those of the days, each
\* with its getters; of the windows of the TripPattern it is building, the
\* speed of the second
ServiceFields == {"speed", "headway", "dwell", "start", "end"}
DayFields == {"mon", "tue", "wed", "thurs", "fri", "sat", "sun", "weekday", "weekend"}

Drives(w, field) ==
  \/ target = "TimeWindow service" /\ w = "w1" /\ field \in ServiceFields
  \/ target = "TimeWindow days" /\ w = "w1" /\ field \in DayFields
  \/ target = "TripPattern" /\ w = "w2" /\ field = "speed"

Reads(w, field) ==
  \/ target = "TimeWindow service" /\ w = "w1" /\ field \in ServiceFields
  \/ target = "TimeWindow days" /\ w = "w1" /\ field \in DayFields

\* a plain fluent accessor called with an argument
TW_store(w, field, v) ==
  /\ win' = [win EXCEPT ![w][field] = v]
  /\ ret' = This(w)
  /\ UNCHANGED <<target, tp, rt, ah, cf, heap, added, oddReversals>>

\* a plain fluent accessor called without one
TW_read(w, field, v) ==
  /\ ret' = Value(field, v)
  /\ UNCHANGED <<win, target, tp, rt, ah, cf, heap, added, oddReversals>>

TW_speed_set(w, speed) == Drives(w, "speed") /\ TW_store(w, "speed", speed)
TW_speed_get(w) == Reads(w, "speed") /\ TW_read(w, "speed", Num(win[w].speed))

\* headway below 120 only logs a warning
TW_headway_set(w, headway) == Drives(w, "headway") /\ TW_store(w, "headway", headway)
TW_headway_get(w) == Reads(w, "headway") /\ TW_read(w, "headway", Num(win[w].headway))

TW_dwell_set(w, dwell) == Drives(w, "dwell") /\ TW_store(w, "dwell", dwell)
TW_dwell_get(w) == Reads(w, "dwell") /\ TW_read(w, "dwell", Num(win[w].dwell))

\* variant: startTime with endTime's limit
StartTimeRejectedAboveTwoDays(startTime) == startTime < 0 \/ startTime > TwoGtfsDays
StartTimeRejected(startTime) == startTime < 0 \/ startTime > GtfsDay

TW_startTime_set(w, startTime) ==
  /\ Drives(w, "start")
  /\ IF StartTimeRejected(startTime)
     THEN /\ ret' = Threw("Start time must be between zero and 24 * 3600.")
          /\ UNCHANGED <<win, target, tp, rt, ah, cf, heap, added, oddReversals>>
     ELSE TW_store(w, "start", startTime)

TW_startTime_get(w) == Reads(w, "start") /\ TW_read(w, "start", Num(win[w].start))

EndTimeRejected(endTime) == endTime < 0 \/ endTime > TwoGtfsDays

TW_endTime_set(w, endTime) ==
  /\ Drives(w, "end")
  /\ IF EndTimeRejected(endTime)
     THEN /\ ret' = Threw("Start time must be between zero and 48 * 3600.")
          /\ UNCHANGED <<win, target, tp, rt, ah, cf, heap, added, oddReversals>>
     ELSE TW_store(w, "end", endTime)

TW_endTime_get(w) == Reads(w, "end") /\ TW_read(w, "end", Num(win[w].end))

TW_monday_set(w, monday) == Drives(w, "mon") /\ TW_store(w, "mon", monday)
TW_monday_get(w) == Reads(w, "mon") /\ TW_read(w, "mon", Bool(win[w].mon))
TW_tuesday_set(w, tuesday) == Drives(w, "tue") /\ TW_store(w, "tue", tuesday)
TW_tuesday_get(w) == Reads(w, "tue") /\ TW_read(w, "tue", Bool(win[w].tue))
TW_wednesday_set(w, wednesday) == Drives(w, "wed") /\ TW_store(w, "wed", wednesday)
TW_wednesday_get(w) == Reads(w, "wed") /\ TW_read(w, "wed", Bool(win[w].wed))
TW_thursday_set(w, thursday) == Drives(w, "thurs") /\ TW_store(w, "thurs", thursday)
TW_thursday_get(w) == Reads(w, "thurs") /\ TW_read(w, "thurs", Bool(win[w].thurs))
TW_friday_set(w, friday) == Drives(w, "fri") /\ TW_store(w, "fri", friday)
TW_friday_get(w) == Reads(w, "fri") /\ TW_read(w, "fri", Bool(win[w].fri))
TW_saturday_set(w, saturday) == Drives(w, "sat") /\ TW_store(w, "sat", saturday)
TW_saturday_get(w) == Reads(w, "sat") /\ TW_read(w, "sat", Bool(win[w].sat))
TW_sunday_set(w, sunday) == Drives(w, "sun") /\ TW_store(w, "sun", sunday)
TW_sunday_get(w) == Reads(w, "sun") /\ TW_read(w, "sun", Bool(win[w].sun))

\* weekday(weekday) calls the five weekday setters
TW_weekday_set(w, weekday) ==
  /\ Drives(w, "weekday")
  /\ win' = [win EXCEPT ![w].mon = weekday, ![w].tue = weekday, ![w].wed = weekday,
                        ![w].thurs = weekday, ![w].fri = weekday]
  /\ ret' = This(w)
  /\ UNCHANGED <<target, tp, rt, ah, cf, heap, added, oddReversals>>

TW_weekday_get(w) ==
  /\ Reads(w, "weekday")
  /\ ret' = Value("weekday", Bool(win[w].mon /\ win[w].tue /\ win[w].wed /\ win[w].thurs /\ win[w].fri))
  /\ UNCHANGED <<win, target, tp, rt, ah, cf, heap, added, oddReversals>>

TW_weekend_set(w, weekend) ==
  /\ Drives(w, "weekend")
  /\ win' = [win EXCEPT ![w].sat = weekend, ![w].sun = weekend]
  /\ ret' = This(w)
  /\ UNCHANGED <<target, tp, rt, ah, cf, heap, added, oddReversals>>

TW_weekend_get(w) ==
  /\ Reads(w, "weekend")
  /\ ret' = Value("weekend", Bool(win[w].sat /\ win[w].sun))
  /\ UNCHANGED <<win, target, tp, rt, ah, cf, heap, added, oddReversals>>

----------------------------------------------------------------------------
(* The flat builders.  Their list fields hold null or a reference to an    *)
(* array; heap[id] is the content of the array with identity id.           *)

\* new RemoveTrip()
NewRemoveTrip ==
  [agencyId |-> Null, routeId |-> Null, tripId |-> Null, routeType |-> Null]

\* new AdjustHeadway()
NewAdjustHeadway ==
  [agencyId |-> Null, routeId |-> Null, tripId |-> Null, routeType |-> Null,
   headway |-> Num(DefaultAdjustHeadway)]

\* new ConvertToFrequency(), whose _routeId is the first array allocated
NewConvertToFrequency ==
  [routeId |-> ArrayRef(1), windowStart |-> Num(0), windowEnd |-> Num(GtfsDay),
   groupBy |-> Str("ROUTE_DIRECTION")]

ListLen(field, h) == IF field = Null THEN 0 ELSE Len(h[field.id])

\* variant: a new array on every call
PushOrCreateAlways(field, item, h) ==
  [field |-> ArrayRef(Len(h) + 1), heap |-> Append(h, <<item>>)]

\* if (field === null) field = [item]; else field.push(item)
PushOrCreate(field, item, h) ==
  IF field = Null
  THEN [field |-> ArrayRef(Len(h) + 1), heap |-> Append(h, <<item>>)]
  ELSE [field |-> field, heap |-> [h EXCEPT ![field.id] = Append(@, item)]]

\* field.push(item) on a field that always holds an array
Push(field, item, h) ==
  [field |-> field, heap |-> [h EXCEPT ![field.id] = Append(@, item)]]

\* a document as a reader sees it: every array it refers to with its content
Contents(doc, h) ==
  [f \in DOMAIN doc |->
     IF doc[f].type = "array" THEN [type |-> "array", items |-> h[doc[f].id]]
     ELSE doc[f]]

(* RemoveTrip *)

RT_agency_set(agency) ==
  /\ target = "RemoveTrip"
  /\ rt' = [rt EXCEPT !.agencyId = agency]
  /\ ret' = This("rt")
  /\ UNCHANGED <<target, tp, win, ah, cf, heap, added, oddReversals>>

RT_agency_get ==
  /\ target = "RemoveTrip"
  /\ ret' = Value("agency", rt.agencyId)
  /\ UNCHANGED <<target, tp, win, rt, ah, cf, heap, added, oddReversals>>

RT_addRoute(route) ==
  /\ target = "RemoveTrip"
  /\ ListLen(rt.routeId, heap) < MaxList
  /\ LET r == PushOrCreate(rt.routeId, route, heap)
     IN /\ rt' = [rt EXCEPT !.routeId = r.field]
        /\ heap' = r.heap
  /\ added' = [added EXCEPT !.routeId = Append(@, route)]
  /\ ret' = This("rt")
  /\ UNCHANGED <<target, tp, win, ah, cf, oddReversals>>

RT_addTrip(trip) ==
  /\ target = "RemoveTrip"
  /\ ListLen(rt.tripId, heap) < MaxList
  /\ LET r == PushOrCreate(rt.tripId, trip, heap)
     IN /\ rt' = [rt EXCEPT !.tripId = r.field]
        /\ heap' = r.heap
  /\ added' = [added EXCEPT !.tripId = Append(@, trip)]
  /\ ret' = This("rt")
  /\ UNCHANGED <<target, tp, win, ah, cf, oddReversals>>

RT_addType(type) ==
  /\ target = "RemoveTrip"
  /\ ListLen(rt.routeType, heap) < MaxList
  /\ LET r == PushOrCreate(rt.routeType, type, heap)
     IN /\ rt' = [rt EXCEPT !.routeType = r.field]
        /\ heap' = r.heap
  /\ added' = [added EXCEPT !.routeType = Append(@, type)]
  /\ ret' = This("rt")
  /\ UNCHANGED <<target, tp, win, ah, cf, oddReversals>>

RemoveTripDocument(this) ==
  [type |-> Str("remove-trip"),
   agencyId |-> this.agencyId,
   routeId |-> this.routeId,
   tripId |-> this.tripId,
   routeType |-> this.routeType]

RT_make ==
  /\ target = "RemoveTrip"
  /\ ret' = Value("make", RemoveTripDocument(rt))
  /\ UNCHANGED <<target, tp, win, rt, ah, cf, heap, added, oddReversals>>

(* ConvertToFrequency *)

CF_addRoute(route) ==
  /\ target = "ConvertToFrequency"
  /\ ListLen(cf.routeId, heap) < MaxList
  /\ LET r == Push(cf.routeId, route, heap)
     IN /\ cf' = [cf EXCEPT !.routeId = r.field]
        /\ heap' = r.heap
  /\ added' = [added EXCEPT !.routeId = Append(@, route)]
  /\ ret' = This("cf")
  /\ UNCHANGED <<target, tp, win, rt, ah, oddReversals>>

CF_windowStart_set(windowStart) ==
  /\ target = "ConvertToFrequency"
  /\ cf' = [cf EXCEPT !.windowStart = windowStart]
  /\ ret' = This("cf")
  /\ UNCHANGED <<target, tp, win, rt, ah, heap, added, oddReversals>>

CF_windowStart_get ==
  /\ target = "ConvertToFrequency"
  /\ ret' = Value("windowStart", cf.windowStart)
  /\ UNCHANGED <<target, tp, win, rt, ah, cf, heap, added, oddReversals>>

CF_windowEnd_set(windowEnd) ==
  /\ target = "ConvertToFrequency"
  /\ cf' = [cf EXCEPT !.windowEnd = windowEnd]
  /\ ret' = This("cf")
  /\ UNCHANGED <<target, tp, win, rt, ah, heap, added, oddReversals>>

CF_windowEnd_get ==
  /\ target = "ConvertToFrequency"
  /\ ret' = Value("windowEnd", cf.windowEnd)
  /\ UNCHANGED <<target, tp, win, rt, ah, cf, heap, added, oddReversals>>

CF_groupBy_set(groupBy) ==
  /\ target = "ConvertToFrequency"
  /\ cf' = [cf EXCEPT !.groupBy = groupBy]
  /\ ret' = This("cf")
  /\ UNCHANGED <<target, tp, win, rt, ah, heap, added, oddReversals>>

CF_groupBy_get ==
  /\ target = "ConvertToFrequency"
  /\ ret' = Value("groupBy", cf.groupBy)
  /\ UNCHANGED <<target, tp, win, rt, ah, cf, heap, added, oddReversals>>

ConvertToFrequencyDocument(this) ==
  [type |-> Str("convert-to-frequency"),
   windowStart |-> this.windowStart,
   windowEnd |-> this.windowEnd,
   groupBy |-> this.groupBy,
   routeId |-> this.routeId]

CF_make ==
  /\ target = "ConvertToFrequency"
  /\ ret' = Value("make", ConvertToFrequencyDocument(cf))
  /\ UNCHANGED <<target, tp, win, rt, ah, cf, heap, added, oddReversals>>

(* AdjustHeadway *)

AH_agency_set(agency) ==
  /\ target = "AdjustHeadway"
  /\ ah' = [ah EXCEPT !.agencyId = agency]
  /\ ret' = This("ah")
  /\ UNCHANGED <<target, tp, win, rt, cf, heap, added, oddReversals>>

AH_agency_get ==
  /\ target = "AdjustHeadway"
  /\ ret' = Value("agency", ah.agencyId)
  /\ UNCHANGED <<target, tp, win, rt, ah, cf, heap, added, oddReversals>>

AH_addRoute(route) ==
  /\ target = "AdjustHeadway"
  /\ ListLen(ah.routeId, heap) < MaxList
  /\ LET r == PushOrCreate(ah.routeId, route, heap)
     IN /\ ah' = [ah EXCEPT !.routeId = r.field]
        /\ heap' = r.heap
  /\ added' = [added EXCEPT !.routeId = Append(@, route)]
  /\ ret' = This("ah")
  /\ UNCHANGED <<target, tp, win, rt, cf, oddReversals>>

AH_addTrip(trip) ==
  /\ target = "AdjustHeadway"
  /\ ListLen(ah.tripId, heap) < MaxList
  /\ LET r == PushOrCreate(ah.tripId, trip, heap)
     IN /\ ah' = [ah EXCEPT !.tripId = r.field]
        /\ heap' = r.heap
  /\ added' = [added EXCEPT !.tripId = Append(@, trip)]
  /\ ret' = This("ah")
  /\ UNCHANGED <<target, tp, win, rt, cf, oddReversals>>

AH_addType(type) ==
  /\ target = "AdjustHeadway"
  /\ ListLen(ah.routeType, heap) < MaxList
  /\ LET r == PushOrCreate(ah.routeType, type, heap)
     IN /\ ah' = [ah EXCEPT !.routeType = r.field]
        /\ heap' = r.heap
  /\ added' = [added EXCEPT !.routeType = Append(@, type)]
  /\ ret' = This("ah")
  /\ UNCHANGED <<target, tp, win, rt, cf, oddReversals>>

AH_headway_set(headway) ==
  /\ target = "AdjustHeadway"
  /\ ah' = [ah EXCEPT !.headway = headway]
  /\ ret' = This("ah")
  /\ UNCHANGED <<target, tp, win, rt, cf, heap, added, oddReversals>>

AH_headway_get ==
  /\ target = "AdjustHeadway"
  /\ ret' = Value("headway", ah.headway)
  /\ UNCHANGED <<target, tp, win, rt, ah, cf, heap, added, oddReversals>>

AdjustHeadwayDocument(this) ==
  [type |-> Str("adjust-headway"),
   agencyId |-> this.agencyId,
   routeId |-> this.routeId,
   tripId |-> this.tripId,
   routeType |-> this.routeType,
   headway |-> this.headway]

AH_make ==
  /\ target = "AdjustHeadway"
  /\ ret' = Value("make", AdjustHeadwayDocument(ah))
  /\ UNCHANGED <<target, tp, win, rt, ah, cf, heap, added, oddReversals>>

----------------------------------------------------------------------------
(* The program *)

Targets ==
  {"TripPattern", "TimeWindow service", "TimeWindow days",
   "RemoveTrip", "AdjustHeadway", "ConvertToFrequency"}

\* every builder as its constructor leaves it; the script works on one of them
Init ==
  /\ target \in Targets
  /\ tp = NewTripPattern
  /\ win = [w \in WindowIds |-> NewTimeWindow]
  /\ rt = NewRemoveTrip
  /\ ah = NewAdjustHeadway
  /\ cf = NewConvertToFrequency
  /\ heap = << <<>> >>
  /\ ret = NoCall
  /\ added = [routeId |-> <<>>, tripId |-> <<>>, routeType |-> <<>>]
  /\ oddReversals = FALSE

Next ==
  \/ TP_reverse
  \/ \E name \in Names : TP_name_set(name)
  \/ TP_name_get
  \/ \E geometry \in Geometries : TP_geometry_set(geometry)
  \/ TP_geometry_get
  \/ \E spacing \in Spacings : TP_spacing_set(spacing)
  \/ TP_spacing_get
  \/ \E timeWindow \in WindowIds : TP_addTimeWindow(timeWindow)
  \/ TP_make
  \/ \E w \in WindowIds, v \in Speeds : TW_speed_set(w, v)
  \/ \E w \in WindowIds : TW_speed_get(w)
  \/ \E w \in WindowIds, v \in Headways : TW_headway_set(w, v)
  \/ \E w \in WindowIds : TW_headway_get(w)
  \/ \E w \in WindowIds, v \in Dwells : TW_dwell_set(w, v)
  \/ \E w \in WindowIds : TW_dwell_get(w)
  \/ \E w \in WindowIds, v \in StartTimes : TW_startTime_set(w, v)
  \/ \E w \in WindowIds : TW_startTime_get(w)
  \/ \E w \in WindowIds, v \in EndTimes : TW_endTime_set(w, v)
  \/ \E w \in WindowIds : TW_endTime_get(w)
  \/ \E w \in WindowIds, v \in BOOLEAN : TW_monday_set(w, v)
  \/ \E w \in WindowIds : TW_monday_get(w)
  \/ \E w \in WindowIds, v \in BOOLEAN : TW_tuesday_set(w, v)
  \/ \E w \in WindowIds : TW_tuesday_get(w)
  \/ \E w \in WindowIds, v \in BOOLEAN : TW_wednesday_set(w, v)
  \/ \E w \in WindowIds : TW_wednesday_get(w)
  \/ \E w \in WindowIds, v \in BOOLEAN : TW_thursday_set(w, v)
  \/ \E w \in WindowIds : TW_thursday_get(w)
  \/ \E w \in WindowIds, v \in BOOLEAN : TW_friday_set(w, v)
  \/ \E w \in WindowIds : TW_friday_get(w)
  \/ \E w \in WindowIds, v \in BOOLEAN : TW_saturday_set(w, v)
  \/ \E w \in WindowIds : TW_saturday_get(w)
  \/ \E w \in WindowIds, v \in BOOLEAN : TW_sunday_set(w, v)
  \/ \E w \in WindowIds : TW_sunday_get(w)
  \/ \E w \in WindowIds, v \in BOOLEAN : TW_weekday_set(w, v)
  \/ \E w \in WindowIds : TW_weekday_get(w)
  \/ \E w \in WindowIds, v \in BOOLEAN : TW_weekend_set(w, v)
  \/ \E w \in WindowIds : TW_weekend_get(w)
  \/ \E agency \in Agencies : RT_agency_set(agency)
  \/ RT_agency_get
  \/ \E route \in Routes : RT_addRoute(route)
  \/ \E trip \in Trips : RT_addTrip(trip)
  \/ \E type \in Types : RT_addType(type)
  \/ RT_make
  \/ \E route \in Routes : CF_addRoute(route)
  \/ \E windowStart \in WindowBounds : CF_windowStart_set(windowStart)
  \/ CF_windowStart_get
  \/ \E windowEnd \in WindowBounds : CF_windowEnd_set(windowEnd)
  \/ CF_windowEnd_get
  \/ \E groupBy \in GroupBys : CF_groupBy_set(groupBy)
  \/ CF_groupBy_get
  \/ CF_make
  \/ \E agency \in Agencies : AH_agency_set(agency)
  \/ AH_agency_get
  \/ \E route \in Routes : AH_addRoute(route)
  \/ \E trip \in Trips : AH_addTrip(trip)
  \/ \E type \in Types : AH_addType(type)
  \/ \E headway \in AdjustedHeadways : AH_headway_set(headway)
  \/ AH_headway_get
  \/ AH_make

Spec == Init /\ [][Next]_vars

----------------------------------------------------------------------------
(* What the claims speak of *)

\* the last call was TripPattern.make() and it returned a document; no call
\* came after it, so tp and win are the builder and the windows it ran on
MakeReturned == target = "TripPattern" /\ ret.kind = "value" /\ ret.of = "make"

\* the last call was TripPattern.make(), whatever came of it (in a script on a
\* TripPattern no other call throws or fails to return)
MakeCalled == target = "TripPattern" /\ (MakeReturned \/ ret.kind \in {"threw", "diverges"})

TrueCount(stops) == Cardinality({i \in DOMAIN stops : stops[i]})

\* the locals of make() on the current builder before the reversal
ForwardLocals == PushLastHop(WalkSegments(MakeLocals(tp), 2))

\* the length of the geometry up to vertex i, in km
RECURSIVE LengthTo(_, _)
LengthTo(coords, i) ==
  IF i <= 1 THEN 0 ELSE LengthTo(coords, i - 1) + distance(coords[i - 1], coords[i])

PositiveSpacing == tp.spacing # Null /\ tp.spacing.v > 0

\* C1: for a geometry of at least 2 coordinates and a spacing > 0, make()
\* returns a document, and in every returned document for such a geometry the
\* number of true entries of stops is the number of hops plus 1 and is nStops,
\* and every timetable has that many dwell times and one hop time fewer,
\* reversed or not.
C1_StopCountConsistent ==
  /\ (MakeCalled /\ tp.geometry # Null /\ Len(tp.geometry.coordinates) >= 2
        /\ PositiveSpacing)
       => MakeReturned
  /\ (MakeReturned /\ Len(tp.geometry.coordinates) >= 2)
       => /\ TrueCount(ret.val.stops) = Len(ForwardLocals.hops) + 1
          /\ TrueCount(ret.val.stops) = ForwardLocals.nStops
          /\ Len(ret.val.timetables) = Len(tp.windows)
          /\ \A k \in DOMAIN ret.val.timetables :
               /\ Len(ret.val.timetables[k].hopTimes) + 1
                    = Len(ret.val.timetables[k].dwellTimes)
               /\ Len(ret.val.timetables[k].dwellTimes) = TrueCount(ret.val.stops)

\* a reversed pattern of three vertices with interpolated stops and two timetables
C1_Witness ==
  /\ MakeReturned
  /\ tp.reversed
  /\ Len(tp.geometry.coordinates) = 3
  /\ PositiveSpacing
  /\ TrueCount(ret.val.stops) >= 4
  /\ Len(ret.val.timetables) = 2

\* C2: for a spacing > 0 the hops of make() are one hop of `spacing` metres
\* per interpolated stop and a last hop that is at least 0 and at most
\* `spacing`, and they sum to the length of the geometry; so do the hop times
\* of every timetable, at the timetable's speed.
C2_HopsSumToLength ==
  (MakeReturned /\ PositiveSpacing) =>
    LET hops == ForwardLocals.hops
        coords == tp.geometry.coordinates
        total == LengthTo(coords, Len(coords))
    IN /\ Sum(hops) = total * MetersPerKm
       /\ \A k \in 1..(Len(hops) - 1) : hops[k] = tp.spacing.v
       /\ hops[Len(hops)] >= 0
       /\ hops[Len(hops)] <= tp.spacing.v
       /\ \A k \in DOMAIN ret.val.timetables :
            Sum(ret.val.timetables[k].hopTimes)
              = HopTime(total * MetersPerKm, win[tp.windows[k]].speed)

\* a line of 6 km in two segments at a spacing of 2 km, with a timetable
C2_Witness ==
  /\ MakeReturned
  /\ PositiveSpacing
  /\ Len(tp.geometry.coordinates) = 3
  /\ Len(ForwardLocals.hops) >= 3
  /\ Len(ret.val.timetables) >= 1

\* C2, a second case: a last hop strictly between 0 and the spacing
C2_WitnessLeftover ==
  /\ MakeReturned
  /\ PositiveSpacing
  /\ LET hops == ForwardLocals.hops
     IN hops[Len(hops)] > 0 /\ hops[Len(hops)] < tp.spacing.v

\* the number of stops make() inserts before the point `cum` km along the
\* line: the multiples of the spacing that are less than cum
StopsBefore(cum, spacingKm) ==
  IF cum <= 0 \/ spacingKm <= 0 THEN 0 ELSE (cum - 1) \div spacingKm

\* where vertex i of the geometry lies in the forward stops array
VertexIndex(coords, i, spacingKm) == i + StopsBefore(LengthTo(coords, i), spacingKm)

\* C9: in a document returned for a geometry of at least 2 coordinates the
\* first and the last element of stops are true, stops has one entry per
\* vertex of the discretized geometry (the original vertices and the
\* interpolated stops), and an original vertex that is neither the first nor
\* the last is marked false, forward and reversed.
C9_EndsAreStops ==
  (MakeReturned /\ Len(tp.geometry.coordinates) >= 2) =>
    LET stops == ret.val.stops
        coords == tp.geometry.coordinates
        spacingKm == ToNumber(tp.spacing) \div MetersPerKm
        inserted == StopsBefore(LengthTo(coords, Len(coords)), spacingKm)
    IN /\ stops[1]
       /\ stops[Len(stops)]
       /\ Len(stops) = Len(coords) + inserted
       /\ Len(stops) = Len(ForwardLocals.coordinates)
       /\ \A i \in 2..(Len(coords) - 1) :
            LET at == VertexIndex(coords, i, spacingKm)
            IN ~stops[IF tp.reversed THEN Len(stops) + 1 - at ELSE at]

\* a reversed pattern with an inner vertex and stops interpolated around it
C9_Witness ==
  /\ MakeReturned
  /\ tp.reversed
  /\ Len(tp.geometry.coordinates) = 3
  /\ PositiveSpacing
  /\ Len(ret.val.stops) >= 5
  /\ \E i \in DOMAIN ret.val.stops : ~ret.val.stops[i]

\* the document make() returns for the builder as it is, were it not reversed
ForwardDocument == MakeTripPattern([tp EXCEPT !.reversed = FALSE], win).ret.val

\* C10: after an even number of reverse() calls, with any make() calls in
\* between, make() returns the document of the pattern never reversed; after
\* an odd number, a document whose stops and whose timetables' hopTimes are
\* those reversed.
C10_ReverseTwice ==
  MakeReturned =>
    IF ~oddReversals THEN ret.val = ForwardDocument
    ELSE /\ ret.val.stops = Reverse(ForwardDocument.stops)
         /\ ret.val.name = ForwardDocument.name
         /\ Len(ret.val.timetables) = Len(ForwardDocument.timetables)
         /\ \A k \in DOMAIN ret.val.timetables :
              /\ ret.val.timetables[k].hopTimes
                   = Reverse(ForwardDocument.timetables[k].hopTimes)
              /\ ret.val.timetables[k].dwellTimes
                   = ForwardDocument.timetables[k].dwellTimes

\* reversed an odd number of times, a document that differs from the forward one
C10_Witness ==
  /\ MakeReturned
  /\ oddReversals
  /\ Len(ret.val.timetables) >= 1
  /\ ret.val.stops # ForwardDocument.stops
  /\ ret.val.timetables[1].hopTimes # ForwardDocument.timetables[1].hopTimes

\* C10, a second case: reversed and reversed back, a document of a line that
\* is not its own mirror image
C10_WitnessEven ==
  /\ MakeReturned
  /\ ~oddReversals
  /\ ~tp.reversed
  /\ PositiveSpacing
  /\ ForwardDocument.stops # Reverse(ForwardDocument.stops)

\* C4: make() leaves the TripPattern and its windows as they were; a make()
\* right after a make() returns what that one returned; and what make()
\* returns is the document of the builder as it is after the call.
C4_MakeIdempotent ==
  [][(MakeCalled' /\ TP_make) =>
       /\ tp' = tp
       /\ win' = win
       /\ MakeCalled => ret' = ret
       /\ ret' = MakeTripPattern(tp', win').ret]_vars

\* a document returned for a reversed pattern whose line is not its own mirror image
C4_Witness ==
  /\ MakeReturned
  /\ tp.reversed
  /\ Len(tp.geometry.coordinates) >= 2
  /\ tp.geometry.coordinates # Reverse(tp.geometry.coordinates)
  /\ Len(tp.windows) >= 1

\* C5: make() with a spacing of zero or less, or none, ends with an error
C5_NonPositiveSpacingRejected ==
  (MakeCalled /\ ~PositiveSpacing) => ret.kind = "threw"

\* C8: an accessor called without an argument returns the value stored in
\* its field.  (That a call with an argument returns the builder is the
\* action's ret' = This(...).)
C8_GettersReturnStored ==
  (ret.kind = "value" /\ ret.of # "make") =>
    CASE target = "TripPattern" ->
           ret.val = (CASE ret.of = "name" -> tp.name
                        [] ret.of = "geometry" -> tp.geometry
                        [] ret.of = "spacing" -> tp.spacing)
      [] target = "TimeWindow service" -> ret.val = Num(win["w1"][ret.of])
      [] target = "TimeWindow days" ->
           ret.val = Bool(CASE ret.of = "weekday" ->
                                 win["w1"].mon /\ win["w1"].tue /\ win["w1"].wed
                                   /\ win["w1"].thurs /\ win["w1"].fri
                            [] ret.of = "weekend" -> win["w1"].sat /\ win["w1"].sun
                            [] OTHER -> win["w1"][ret.of])
      [] target = "RemoveTrip" -> ret.val = rt.agencyId
      [] target = "AdjustHeadway" ->
           ret.val = (CASE ret.of = "agency" -> ah.agencyId
                        [] ret.of = "headway" -> ah.headway)
      [] target = "ConvertToFrequency" -> ret.val = cf[ret.of]

\* C6: the stored start is within [0, 86400] and the stored end within
\* [0, 172800]; startTime(v) and endTime(v) with v outside the range throw
\* and leave every window as it was, with v inside it they store v, change
\* nothing else and return the window; called without an argument they
\* return the stored value.
C6_TimesWithinRange ==
  /\ [](\A w \in WindowIds :
          /\ win[w].start >= 0 /\ win[w].start <= GtfsDay
          /\ win[w].end >= 0 /\ win[w].end <= TwoGtfsDays)
  /\ [][target = "TimeWindow service" =>
       /\ \A v \in StartTimes :
            TW_startTime_set("w1", v) =>
              IF v >= 0 /\ v <= GtfsDay
              THEN win' = [win EXCEPT !["w1"].start = v] /\ ret' = This("w1")
              ELSE win' = win /\ ret'.kind = "threw"
       /\ \A v \in EndTimes :
            TW_endTime_set("w1", v) =>
              IF v >= 0 /\ v <= TwoGtfsDays
              THEN win' = [win EXCEPT !["w1"].end = v] /\ ret' = This("w1")
              ELSE win' = win /\ ret'.kind = "threw"
       /\ TW_startTime_get("w1") => (ret'.val = Num(win["w1"].start) /\ win' = win)
       /\ TW_endTime_get("w1") => (ret'.val = Num(win["w1"].end) /\ win' = win)
     ]_vars

\* a start of 43200 stored, then a call that threw
C6_Witness ==
  /\ target = "TimeWindow service"
  /\ win["w1"].start = 43200
  /\ win["w1"].end = TwoGtfsDays
  /\ ret.kind = "threw"

\* the last call was make() on the flat builder the script works on
FlatMakeReturned ==
  /\ target \in {"RemoveTrip", "AdjustHeadway", "ConvertToFrequency"}
  /\ ret.kind = "value"
  /\ ret.of = "make"

\* what make() emits for a field that add calls with these arguments built lazily
NullOrList(args) == IF args = <<>> THEN Null ELSE [type |-> "array", items |-> args]

\* C7: make() of a RemoveTrip or an AdjustHeadway emits routeId, tripId and
\* routeType each as null if its add method was never called and else as the
\* list of the values added, in call order; make() of a ConvertToFrequency
\* emits routeId as the list of the routes added, empty if there were none.
C7_NullOrListPerField ==
  FlatMakeReturned =>
    LET doc == Contents(ret.val, heap)
    IN IF target = "ConvertToFrequency"
       THEN doc.routeId = [type |-> "array", items |-> added.routeId]
       ELSE /\ doc.routeId = NullOrList(added.routeId)
            /\ doc.tripId = NullOrList(added.tripId)
            /\ doc.routeType = NullOrList(added.routeType)

\* a RemoveTrip with two routes added, a type added and no trip
C7_Witness ==
  /\ FlatMakeReturned
  /\ target = "RemoveTrip"
  /\ added.routeId = <<Str("r2"), Str("r1")>>
  /\ added.tripId = <<>>
  /\ added.routeType # <<>>

\* C7, a second case: a ConvertToFrequency with no route added
C7_WitnessEmpty ==
  /\ FlatMakeReturned
  /\ target = "ConvertToFrequency"
  /\ added.routeId = <<>>

\* C3: the document a flat builder's make() returned reads the same after
\* the next call on the builder as before it
C3_ReturnedDocumentDecoupled ==
  [][FlatMakeReturned => Contents(ret.val, heap') = Contents(ret.val, heap)]_vars


====
